---- MODULE Spec2Model ----
(***************************************************************************)
(* avr-fast-div: narrowing integer division for AVR.                       *)
(*                                                                         *)
(* Fixed-width integers are little-endian sequences of bytes (0..255):     *)
(* uint8_t has one byte, uint16_t two, uint32_t four.  byte 1 is the AVR   *)
(* register %A, byte 2 is %B, byte 3 is %C, byte 4 is %D.  Signed values   *)
(* are the two's-complement bit patterns of the same width.  All C         *)
(* arithmetic on a type is therefore arithmetic modulo 2^(8*Len).          *)
(***************************************************************************)
EXTENDS Integers, Sequences, FiniteSets, TLC

----------------------------------------------------------------------------
(* Fixed-width unsigned arithmetic, as the C operators on uintN_t compute. *)

\* The n bytes of a value as a tuple.
Bytes(f, n) == SubSeq(f, 1, n)

Pow256(k) == IF k = 0 THEN 1 ELSE IF k = 1 THEN 256 ELSE IF k = 2 THEN 65536 ELSE 16777216

\* A constant below 2^31 as a value of n bytes.
FromNat(v, n) == Bytes([i \in 1..n |-> (v \div Pow256(i - 1)) % 256], n)

Zero(n) == Bytes([i \in 1..n |-> 0], n)
AllOnes(n) == Bytes([i \in 1..n |-> 255], n)
IsZero(a) == \A i \in 1..Len(a) : a[i] = 0

\* (T)x for a wider unsigned T: zero extension.
ZeroExt(a, n) == Bytes([i \in 1..n |-> IF i <= Len(a) THEN a[i] ELSE 0], n)
\* (T)x for a narrower unsigned T: the low bytes.
Trunc(a, n) == SubSeq(a, 1, n)
\* (TDivisor)(x >> N) where N is half the width of x: the high bytes.
HighHalf(a) == SubSeq(a, (Len(a) \div 2) + 1, Len(a))
LowHalf(a) == Trunc(a, Len(a) \div 2)

\* a < b on values of the same width.
RECURSIVE LessFrom(_, _, _)
LessFrom(a, b, i) ==
    IF i = 0 THEN FALSE
    ELSE IF a[i] # b[i] THEN a[i] < b[i]
    ELSE LessFrom(a, b, i - 1)
Less(a, b) == LessFrom(a, b, Len(a))
LessEq(a, b) == ~Less(b, a)
Greater(a, b) == Less(b, a)
GreaterEq(a, b) == ~Less(a, b)

\* (T)(a - b): subtraction with borrow, byte by byte, wrapping at the width.
RECURSIVE BorrowInto(_, _, _)
BorrowInto(a, b, i) ==
    IF i = 1 THEN 0
    ELSE IF a[i - 1] - b[i - 1] - BorrowInto(a, b, i - 1) < 0 THEN 1 ELSE 0
Sub(a, b) ==
    Bytes([i \in 1..Len(a) |-> (a[i] - b[i] - BorrowInto(a, b, i) + 256) % 256], Len(a))

\* (T)(a + b), wrapping at the width.
RECURSIVE CarryInto(_, _, _)
CarryInto(a, b, i) ==
    IF i = 1 THEN 0
    ELSE IF a[i - 1] + b[i - 1] + CarryInto(a, b, i - 1) > 255 THEN 1 ELSE 0
Add(a, b) ==
    Bytes([i \in 1..Len(a) |-> (a[i] + b[i] + CarryInto(a, b, i)) % 256], Len(a))

\* (T)(-a) on an unsigned T.
Neg(a) == Sub(Zero(Len(a)), a)

\* (T)(a << 1) and (T)(a >> 1).
Shl1(a) ==
    Bytes([i \in 1..Len(a) |->
             (2 * a[i] + (IF i > 1 /\ a[i - 1] >= 128 THEN 1 ELSE 0)) % 256], Len(a))
Shr1(a) ==
    Bytes([i \in 1..Len(a) |->
             (a[i] \div 2) + (IF i < Len(a) /\ a[i + 1] % 2 = 1 THEN 128 ELSE 0)], Len(a))

\* Bitwise or of two bytes, and of two values of the same width.
RECURSIVE OrByte(_, _)
OrByte(x, y) ==
    IF x = 0 THEN y
    ELSE IF y = 0 THEN x
    ELSE (IF x % 2 = 1 \/ y % 2 = 1 THEN 1 ELSE 0) + 2 * OrByte(x \div 2, y \div 2)
Or(a, b) == Bytes([i \in 1..Len(a) |-> OrByte(a[i], b[i])], Len(a))

\* The top bit of a value: (x & max_bit) != 0, or x < 0 for a signed pattern.
TopBit(a) == a[Len(a)] >= 128

----------------------------------------------------------------------------
(* Exact (unbounded) arithmetic on byte sequences, used to state results.  *)

\* a * d for one byte d, exact, in Len(a) + 1 bytes.
RECURSIVE MulCarry(_, _, _)
MulCarry(a, d, i) ==
    IF i = 0 THEN 0
    ELSE (a[i] * d + MulCarry(a, d, i - 1)) \div 256
MulByte(a, d) ==
    Bytes([i \in 1..(Len(a) + 1) |->
             IF i <= Len(a) THEN (a[i] * d + MulCarry(a, d, i - 1)) % 256
             ELSE MulCarry(a, d, Len(a))], Len(a) + 1)

\* a * 256^k in n bytes (n large enough).
ShiftBytes(a, k, n) ==
    Bytes([i \in 1..n |-> IF i > k /\ i - k <= Len(a) THEN a[i - k] ELSE 0], n)

\* a * b, exact, in Len(a) + Len(b) bytes.
RECURSIVE MulFrom(_, _, _)
MulFrom(a, b, j) ==
    IF j = 0 THEN Zero(Len(a) + Len(b))
    ELSE Add(MulFrom(a, b, j - 1), ShiftBytes(MulByte(a, b[j]), j - 1, Len(a) + Len(b)))
Mul(a, b) == MulFrom(a, b, Len(b))

\* q = floor(n / d) and r = n mod d, for unsigned n, d, q, r of any widths, d # 0:
\* n = q * d + r with r < d, computed without wrapping.
IsQuotRem(n, d, q, r) ==
    LET w == 9
    IN  /\ ~IsZero(d)
        /\ Less(ZeroExt(r, w), ZeroExt(d, w))
        /\ Add(ZeroExt(Mul(q, d), w), ZeroExt(r, w)) = ZeroExt(n, w)

\* q = floor(n / d): the remainder n - q * d is in 0 .. d - 1.
IsQuotient(n, d, q) ==
    LET w == 9
        p == ZeroExt(Mul(q, d), w)
    IN  /\ ~IsZero(d)
        /\ LessEq(p, ZeroExt(n, w))
        /\ Less(Sub(ZeroExt(n, w), p), ZeroExt(d, w))

----------------------------------------------------------------------------
(* The platform's native division and the AVR instructions of divide_step. *)

\* The number a value below 2^31 stands for.
RECURSIVE ToNatFrom(_, _)
ToNatFrom(a, i) == IF i > Len(a) THEN 0 ELSE a[i] + 256 * ToNatFrom(a, i + 1)
ToNat(a) == ToNatFrom(a, 1)

\* udividend / udivisor for udivisor # 0, after the usual arithmetic
\* conversions: the truncating quotient in the width of the dividend.  The
\* operands may reach 2^32 - 1, so the quotient is taken from the halved
\* dividend: with n = 2 * nh + lb and nh = qh * d + rh, the quotient is
\* 2 * qh, plus 1 when 2 * rh + lb >= d.
NativeDiv(udividend, udivisor) ==
    LET n == Len(udividend)
        d == ZeroExt(udivisor, n)
    IN  IF d = FromNat(1, n) THEN udividend
        ELSE IF TopBit(d) THEN FromNat(IF GreaterEq(udividend, d) THEN 1 ELSE 0, n)
        ELSE LET nh == ToNat(Shr1(udividend))
                 lb == udividend[1] % 2
                 dn == ToNat(d)
                 qh == nh \div dn
                 rh == nh % dn
             IN  FromNat(2 * qh + (IF rh + lb >= dn - rh THEN 1 ELSE 0), n)

\* lsl / rol: shift a register left through the carry flag.
RotateLeft(r, c) == [reg |-> (2 * r + c) % 256, carry |-> IF r >= 128 THEN 1 ELSE 0]
\* cp / cpc: the carry (borrow) flag of rd - rr - c.
CompareCarry(rd, rr, c) == IF rd - rr - c < 0 THEN 1 ELSE 0
\* sub / sbc: rd - rr - c in 8 bits.
SubtractCarry(rd, rr, c) == (rd - rr - c + 256) % 256

----------------------------------------------------------------------------
(* Restoring division core (afd_implementation.hpp, avr-fast-div.h,        *)
(* avr_fast_div.h).                                                        *)

\* A loop bound one short of the width.
bit_width_one_short(n) == 8 * n - 1
\* bit_width<T>::value
bit_width(n) == 8 * n

\* divide_step for uint16_t that leaves a remainder equal to the divisor in
\* place.
divide_step_u16_u8_strict(dividend, divisor) ==
    LET lsl == RotateLeft(dividend[1], 0)
        rol == RotateLeft(dividend[2], lsl.carry)
        take == rol.carry = 1 \/ rol.reg > divisor[1]
    IN  IF take
        THEN <<OrByte(lsl.reg, 1), SubtractCarry(rol.reg, divisor[1], 0)>>
        ELSE <<lsl.reg, rol.reg>>
\* divide_step for uint16_t subtracting with sbc, the carry of the shift
\* included, in place of sub.
divide_step_u16_u8_sbc(dividend, divisor) ==
    LET lsl == RotateLeft(dividend[1], 0)
        rol == RotateLeft(dividend[2], lsl.carry)
        take == rol.carry = 1 \/ CompareCarry(rol.reg, divisor[1], rol.carry) = 0
    IN  IF take
        THEN <<OrByte(lsl.reg, 1), SubtractCarry(rol.reg, divisor[1], rol.carry)>>
        ELSE <<lsl.reg, rol.reg>>
\* divide_step(uint16_t dividend, const uint8_t &divisor): rem:quot is %B0:%A0.
divide_step_u16_u8(dividend, divisor) ==
    LET lsl == RotateLeft(dividend[1], 0)
        rol == RotateLeft(dividend[2], lsl.carry)
        \* brcs 1f, else cpc %B0,%A1 (carry is clear here) and brcs 2f
        take == rol.carry = 1 \/ CompareCarry(rol.reg, divisor[1], rol.carry) = 0
    IN  IF take
        THEN <<OrByte(lsl.reg, 1), SubtractCarry(rol.reg, divisor[1], 0)>>
        ELSE <<lsl.reg, rol.reg>>

\* divide_step for uint32_t that leaves a remainder equal to the divisor in
\* place.
divide_step_u32_u16_strict(dividend, divisor) ==
    LET lsl == RotateLeft(dividend[1], 0)
        rolB == RotateLeft(dividend[2], lsl.carry)
        rolC == RotateLeft(dividend[3], rolB.carry)
        rolD == RotateLeft(dividend[4], rolC.carry)
        cp == CompareCarry(rolC.reg, divisor[1], 0)
        cpc == CompareCarry(rolD.reg, divisor[2], cp)
        take == rolD.carry = 1 \/ (cpc = 0 /\ <<rolC.reg, rolD.reg>> # divisor)
    IN  IF take
        THEN <<OrByte(lsl.reg, 1), rolB.reg,
               SubtractCarry(rolC.reg, divisor[1], 0),
               SubtractCarry(rolD.reg, divisor[2], cp)>>
        ELSE <<lsl.reg, rolB.reg, rolC.reg, rolD.reg>>
\* divide_step for uint32_t without the brcs on the bit shifted out of %D0.
divide_step_u32_u16_without_carry(dividend, divisor) ==
    LET lsl == RotateLeft(dividend[1], 0)
        rolB == RotateLeft(dividend[2], lsl.carry)
        rolC == RotateLeft(dividend[3], rolB.carry)
        rolD == RotateLeft(dividend[4], rolC.carry)
        cp == CompareCarry(rolC.reg, divisor[1], 0)
        cpc == CompareCarry(rolD.reg, divisor[2], cp)
    IN  IF cpc = 0
        THEN <<OrByte(lsl.reg, 1), rolB.reg,
               SubtractCarry(rolC.reg, divisor[1], 0),
               SubtractCarry(rolD.reg, divisor[2], cp)>>
        ELSE <<lsl.reg, rolB.reg, rolC.reg, rolD.reg>>
\* divide_step(uint32_t dividend, const uint16_t &divisor): rem is %D0:%C0,
\* quot is %B0:%A0.
divide_step_u32_u16(dividend, divisor) ==
    LET lsl == RotateLeft(dividend[1], 0)
        rolB == RotateLeft(dividend[2], lsl.carry)
        rolC == RotateLeft(dividend[3], rolB.carry)
        rolD == RotateLeft(dividend[4], rolC.carry)
        \* brcs 1f, else cp %C0,%A1 ; cpc %D0,%B1 and brcs 2f
        cp == CompareCarry(rolC.reg, divisor[1], 0)
        cpc == CompareCarry(rolD.reg, divisor[2], cp)
        take == rolD.carry = 1 \/ cpc = 0
    IN  IF take
        THEN <<OrByte(lsl.reg, 1), rolB.reg,
               SubtractCarry(rolC.reg, divisor[1], 0),
               SubtractCarry(rolD.reg, divisor[2], cp)>>
        ELSE <<lsl.reg, rolB.reg, rolC.reg, rolD.reg>>

\* Overload resolution of divide_step on the width of the divisor.
divide_step(dividend, divisor) ==
    IF Len(divisor) = 1 THEN divide_step_u16_u8(dividend, divisor)
    ELSE divide_step_u32_u16(dividend, divisor)

\* The portable iteration without the carry out of rem.
portable_divide_step_without_carry(dividend, divisor) ==
    LET quot == LowHalf(dividend)
        rem == HighHalf(dividend)
        n == Len(divisor)
        rem1 == Or(Shl1(rem), FromNat(IF TopBit(quot) THEN 1 ELSE 0, n))
        quot1 == Shl1(quot)
    IN  IF GreaterEq(rem1, divisor)
        THEN Or(quot1, FromNat(1, n)) \o Sub(rem1, divisor)
        ELSE quot1 \o rem1
\* One iteration of the loop of the portable optimized_div_impl::divide, on
\* the register rem:quot (quot is the low half, rem the high half).
portable_divide_step(dividend, divisor) ==
    LET quot == LowHalf(dividend)
        rem == HighHalf(dividend)
        n == Len(divisor)
        carry == TopBit(rem)
        rem1 == Or(Shl1(rem), FromNat(IF TopBit(quot) THEN 1 ELSE 0, n))
        quot1 == Shl1(quot)
    IN  IF carry \/ GreaterEq(rem1, divisor)
        THEN Or(quot1, FromNat(1, n)) \o Sub(rem1, divisor)
        ELSE quot1 \o rem1

\* ((TDividend)1U << bit_count) * 2 - 1, the zero-divisor result of
\* optimized_div_impl::divide.
old_zero_divisor_result(n) ==
    Sub(Shl1(ShiftBytes(FromNat(1, 2 * n), n, 2 * n)), FromNat(1, 2 * n))

----------------------------------------------------------------------------
(* Large-divisor alignment divider.                                        *)

\* is_aligned stopping as soon as the doubled dependent reaches the reference.
is_aligned_on_equal(reference, dependent) ==
    GreaterEq(Shl1(dependent), reference) \/ TopBit(dependent)
\* is_aligned(reference, dependent)
is_aligned(reference, dependent) ==
    Greater(Shl1(dependent), reference) \/ TopBit(dependent)

\* A threshold of 2^(N/2), one above the maximum of the next smaller type.
get_large_divisor_threshhold_one_above(n) ==
    ShiftBytes(FromNat(1, n), n \div 2, n)
\* get_large_divisor_threshhold<T>()
get_large_divisor_threshhold(n) ==
    Sub(ShiftBytes(FromNat(1, n), n \div 2, n), FromNat(1, n))

----------------------------------------------------------------------------
(* Signed reduction.                                                       *)

\* An absolute value that saturates at the signed maximum.
safe_abs_saturating(svalue) ==
    IF ~TopBit(svalue) THEN svalue
    ELSE IF svalue = Bytes([i \in 1..Len(svalue) |-> IF i = Len(svalue) THEN 128 ELSE 0], Len(svalue))
    THEN Bytes([i \in 1..Len(svalue) |-> IF i = Len(svalue) THEN 127 ELSE 255], Len(svalue))
    ELSE Neg(svalue)
\* safe_abs(svalue): svalue < 0 ? -((TUnsigned)svalue) : (TUnsigned)svalue
safe_abs(svalue) == IF TopBit(svalue) THEN Neg(svalue) ELSE svalue

\* The signed minimum of a width, as a bit pattern.
SignedMin(n) == Bytes([i \in 1..n |-> IF i = n THEN 128 ELSE 0], n)
SignedMax(n) == Bytes([i \in 1..n |-> IF i = n THEN 127 ELSE 255], n)

\* sizeof(int) on AVR.
IntBytes == 2

\* (TDividend)-((TDividend)uresult): the operand is promoted to int; a type
\* narrower than int negates exactly and converts back modulo 2^W.  At the
\* width of int or wider, negating the minimum value is signed overflow,
\* which is undefined: the build may wrap, saturate or produce 0.
negate_signed(uresult) ==
    IF Len(uresult) >= IntBytes /\ uresult = SignedMin(Len(uresult))
    THEN {Neg(uresult), SignedMax(Len(uresult)), Zero(Len(uresult))}
    ELSE {Neg(uresult)}

----------------------------------------------------------------------------
(* Inputs.                                                                 *)

\* How many neighbours on each side of a width boundary are sampled.
Spread == 1

\* 2^7, 2^8, 2^15, 2^16, 2^24 and 2^31, where the type is wide enough.
Boundaries(n) ==
    {Zero(n), FromNat(128, n)}
    \cup (IF n >= 2 THEN {FromNat(256, n), FromNat(32768, n)} ELSE {})
    \cup (IF n >= 4 THEN {FromNat(65536, n), FromNat(16777216, n), SignedMin(n)} ELSE {})

\* Operands of the repository's tests (test_implementation.cpp), and the
\* extremes UINT8_MAX*UINT8_MAX and UINT16_MAX*UINT16_MAX of test_fast_div.cpp.
TestValues(n) ==
    IF n = 1 THEN {FromNat(v, 1) : v \in {7, 30}}
    ELSE IF n = 2 THEN {FromNat(v, 2) : v \in {150, 1784, 7590, 60000, 65025}}
    ELSE {FromNat(v, 4) : v \in {60000000, 196605}} \cup {<<1, 0, 254, 255>>}

\* The sampled values of an n-byte type: 0, the maximum, and the values
\* around every power of two at which a byte or sign boundary lies.
Values(n) ==
    {Add(b, FromNat(j, n)) : b \in Boundaries(n), j \in 0..Spread}
    \cup {Sub(b, FromNat(j, n)) : b \in Boundaries(n), j \in 1..Spread}
    \cup TestValues(n)

FastDivOverloads == {<<1, 1>>, <<2, 1>>, <<2, 2>>, <<4, 1>>, <<4, 2>>, <<4, 4>>}
DivideOverloads == {<<2, 1>>, <<4, 2>>}
LargeOverloads == {<<2, 2>>, <<4, 4>>}

\* The entry points of each variant of the library, with their overloads.
\*   "cpp": src/src/avr-fast-div.cpp with src/src/afd_implementation.hpp
\*   "hdr": src/src/avr-fast-div.h (header only, AFD_DEFENSIVE_CHECKS)
\*   "old": src/include/avr_fast_div.h (optimized_div_impl)
EntryPoints ==
    {[facade |-> "cpp", entry |-> "fast_div", signed |-> FALSE, types |-> t] :
        t \in FastDivOverloads}
    \cup {[facade |-> "cpp", entry |-> "fast_div16_8", signed |-> FALSE, types |-> <<2, 1>>],
          [facade |-> "cpp", entry |-> "fast_div32_16", signed |-> FALSE, types |-> <<4, 2>>]}
    \cup {[facade |-> "cpp", entry |-> "divide", signed |-> FALSE, types |-> t] :
        t \in DivideOverloads}
    \cup {[facade |-> "cpp", entry |-> "divide_large_divisor", signed |-> FALSE, types |-> t] :
        t \in LargeOverloads}
    \cup {[facade |-> "hdr", entry |-> "fast_div", signed |-> sg, types |-> t] :
        sg \in BOOLEAN, t \in FastDivOverloads}
    \cup {[facade |-> "hdr", entry |-> "hdr_divide_large_divisor", signed |-> FALSE, types |-> t] :
        t \in LargeOverloads}
    \cup {[facade |-> "old", entry |-> e, signed |-> FALSE, types |-> t] :
        e \in {"old_divide", "old_divide_portable"}, t \in DivideOverloads}
    \cup {[facade |-> "old", entry |-> "old_fast_div", signed |-> FALSE, types |-> t] :
        t \in FastDivOverloads}

\* The entry points that exist for the implementation tests, built with
\* UNIT_TEST defined.
UnitTestEntries == {"divide", "divide_large_divisor", "hdr_divide_large_divisor"}

CallsOf(e) ==
    {[facade |-> e.facade, entry |-> e.entry, signed |-> e.signed, unit_test |-> ut,
      dividend |-> a, divisor |-> b] :
        ut \in (IF e.entry \in UnitTestEntries THEN BOOLEAN ELSE {FALSE}),
        a \in Values(e.types[1]), b \in Values(e.types[2])}

Calls == UNION {CallsOf(e) : e \in EntryPoints}

----------------------------------------------------------------------------
(* State.                                                                  *)

VARIABLES
    call,       \* the call under way: variant, entry point, build flag, arguments
    pc,         \* the function (or loop) in control
    depth,      \* nested fast_div calls made since the entry point
    udividend,  \* the dividend parameter of the function in control
    udivisor,   \* the divisor parameter of the function in control
    index,      \* loop counter of divide
    bit,        \* bit of align / divide_large_divisor
    res,        \* res of divide_large_divisor
    result,     \* the value returned to the caller of the entry point
    path,       \* how the unsigned division ended: early, native, core, large
    calls,      \* the functions entered, in order
    subs        \* subtractions performed by divide_large_divisor

vars == <<call, pc, depth, udividend, udivisor, index, bit, res, result, path, calls, subs>>

None == << >>

\* The function first in control for a call.
EntryPc(c) == IF c.entry = "fast_div" /\ c.signed THEN "fast_div_signed" ELSE c.entry

\* Bytes of the value the entry point returns: fast_div returns the dividend
\* type, divide the divisor type, optimized_div_impl::divide the dividend type.
RetBytes ==
    IF call.entry \in {"divide", "fast_div16_8", "fast_div32_16"}
    THEN Len(call.divisor)
    ELSE Len(call.dividend)

Init ==
    /\ call \in Calls
    /\ pc = EntryPc(call)
    /\ depth = 0
    /\ udividend = call.dividend
    /\ udivisor = call.divisor
    /\ index = 0
    /\ bit = None
    /\ res = None
    /\ result = None
    /\ path = "none"
    /\ calls = <<EntryPc(call)>>
    /\ subs = 0

----------------------------------------------------------------------------
(* Control transfers shared by the functions below.                        *)

\* return v; from the unsigned division, converted to the return type.
Return(v, kind) ==
    /\ pc' = IF call.signed THEN "restore_sign" ELSE "done"
    /\ result' = ZeroExt(v, RetBytes)
    /\ path' = kind
    /\ UNCHANGED <<call, depth, udividend, udivisor, index, bit, res, calls, subs>>

\* return fast_div(a, b);
CallFastDiv(a, b) ==
    /\ pc' = "fast_div"
    /\ udividend' = a
    /\ udivisor' = b
    /\ depth' = depth + 1
    /\ calls' = Append(calls, "fast_div")
    /\ UNCHANGED <<call, index, bit, res, result, path, subs>>

\* return divide(a, b);
CallDivide(a, b) ==
    /\ pc' = "divide"
    /\ udividend' = a
    /\ udivisor' = b
    /\ index' = 0
    /\ calls' = Append(calls, "divide")
    /\ UNCHANGED <<call, depth, bit, res, result, path, subs>>

\* return divide_large_divisor(a, b);
CallLarge(f, a, b) ==
    /\ pc' = f
    /\ udividend' = a
    /\ udivisor' = b
    /\ calls' = Append(calls, f)
    /\ UNCHANGED <<call, depth, index, bit, res, result, path, subs>>

\* The overload of fast_div selected by the operand types.
Overload(t) == pc = "fast_div" /\ <<Len(udividend), Len(udivisor)>> = t

\* (dividend) < (divisor) and (dividend) == (divisor) after the usual
\* arithmetic conversions of operands of different widths.
LessConv(a, b) == Less(ZeroExt(a, 4), ZeroExt(b, 4))
EqualConv(a, b) == ZeroExt(a, 4) = ZeroExt(b, 4)

UINT8_MAX == FromNat(255, 2)
UINT16_MAX == FromNat(65535, 4)
UINT24_MAX == FromNat(16777215, 4)

----------------------------------------------------------------------------
(* src/src/avr-fast-div.cpp                                                *)

\* fast_div16_8 with AFD_ZERO_DIVISOR_CHECK defined empty.
cpp_fast_div16_8_without_zero_check ==
    /\ pc = "fast_div16_8"
    /\ CallDivide(udividend, udivisor)
\* uint8_t fast_div16_8(uint16_t, uint8_t)
cpp_fast_div16_8 ==
    /\ pc = "fast_div16_8"
    /\ IF IsZero(udivisor)
       THEN Return(Zero(1), "early")
       ELSE CallDivide(udividend, udivisor)

\* uint16_t fast_div32_16(uint32_t, uint16_t)
cpp_fast_div32_16 ==
    /\ pc = "fast_div32_16"
    /\ IF IsZero(udivisor)
       THEN Return(Zero(1), "early")
       ELSE CallDivide(udividend, udivisor)

\* uint8_t fast_div(uint8_t, uint8_t)
cpp_fast_div_u8_u8 ==
    /\ call.facade = "cpp" /\ Overload(<<1, 1>>)
    /\ IF IsZero(udivisor)
       THEN Return(Zero(1), "early")
       ELSE Return(NativeDiv(udividend, udivisor), "native")

\* fast_div(uint16_t, uint8_t) comparing the divisor with the low byte of the
\* dividend.
cpp_fast_div_u16_u8_low_byte ==
    /\ call.facade = "cpp" /\ Overload(<<2, 1>>)
    /\ IF IsZero(udivisor)
       THEN Return(Zero(1), "early")
       ELSE IF Greater(udivisor, LowHalf(udividend))
       THEN CallDivide(udividend, udivisor)
       ELSE Return(NativeDiv(udividend, udivisor), "native")
\* fast_div(uint16_t, uint8_t) taking the restoring core also when the divisor
\* equals the high byte of the dividend.
cpp_fast_div_u16_u8_core_on_equal ==
    /\ call.facade = "cpp" /\ Overload(<<2, 1>>)
    /\ IF IsZero(udivisor)
       THEN Return(Zero(1), "early")
       ELSE IF GreaterEq(udivisor, HighHalf(udividend))
       THEN CallDivide(udividend, udivisor)
       ELSE Return(NativeDiv(udividend, udivisor), "native")
\* uint16_t fast_div(uint16_t, uint8_t)
cpp_fast_div_u16_u8 ==
    /\ call.facade = "cpp" /\ Overload(<<2, 1>>)
    /\ IF IsZero(udivisor)
       THEN Return(Zero(1), "early")
       ELSE IF Greater(udivisor, HighHalf(udividend))
       THEN CallDivide(udividend, udivisor)
       ELSE Return(NativeDiv(udividend, udivisor), "native")

\* uint16_t fast_div(uint16_t, uint16_t)
cpp_fast_div_u16_u16 ==
    /\ call.facade = "cpp" /\ Overload(<<2, 2>>)
    /\ IF IsZero(udivisor)
       THEN Return(Zero(1), "early")
       ELSE IF LessEq(udivisor, UINT8_MAX)
       THEN CallFastDiv(udividend, Trunc(udivisor, 1))
       ELSE CallLarge("divide_large_divisor", udividend, udivisor)

\* fast_divu32u16 comparing the divisor with the low half of the dividend.
fast_divu32u16_low_half(a, b) ==
    IF Greater(b, LowHalf(a))
    THEN CallDivide(a, b)
    ELSE Return(NativeDiv(a, b), "native")
\* fast_divu32u16 taking the restoring core also when the divisor equals the
\* high half of the dividend.
fast_divu32u16_core_on_equal(a, b) ==
    IF GreaterEq(b, HighHalf(a))
    THEN CallDivide(a, b)
    ELSE Return(NativeDiv(a, b), "native")
\* static inline uint32_t fast_divu32u16(uint32_t, uint16_t)
fast_divu32u16(a, b) ==
    IF Greater(b, HighHalf(a))
    THEN CallDivide(a, b)
    ELSE Return(NativeDiv(a, b), "native")

\* uint32_t fast_div(uint32_t, uint16_t)
cpp_fast_div_u32_u16 ==
    /\ call.facade = "cpp" /\ Overload(<<4, 2>>)
    /\ IF IsZero(udivisor)
       THEN Return(Zero(1), "early")
       ELSE fast_divu32u16(udividend, udivisor)

\* uint32_t fast_div(uint32_t, uint8_t)
cpp_fast_div_u32_u8 ==
    /\ call.facade = "cpp" /\ Overload(<<4, 1>>)
    /\ IF IsZero(udivisor)
       THEN Return(Zero(1), "early")
       ELSE fast_divu32u16(udividend, ZeroExt(udivisor, 2))

\* fast_div(uint32_t, uint32_t) narrowing only divisors below UINT16_MAX.
cpp_fast_div_u32_u32_narrow_below_max ==
    /\ call.facade = "cpp" /\ Overload(<<4, 4>>)
    /\ IF IsZero(udivisor)
       THEN Return(Zero(1), "early")
       ELSE IF Less(udivisor, UINT16_MAX)
       THEN fast_divu32u16(udividend, Trunc(udivisor, 2))
       ELSE CallLarge("divide_large_divisor", udividend, udivisor)
\* uint32_t fast_div(uint32_t, uint32_t)
cpp_fast_div_u32_u32 ==
    /\ call.facade = "cpp" /\ Overload(<<4, 4>>)
    /\ IF IsZero(udivisor)
       THEN Return(Zero(1), "early")
       ELSE IF LessEq(udivisor, UINT16_MAX)
       THEN fast_divu32u16(udividend, Trunc(udivisor, 2))
       ELSE CallLarge("divide_large_divisor", udividend, udivisor)

----------------------------------------------------------------------------
(* src/src/avr-fast-div.h                                                  *)

\* avr-gcc defines __UINT24_MAX__, so the 24-bit fallbacks are compiled.
HasUint24 == TRUE

\* (__uint24)udividend / (__uint24)udivisor
NativeDiv24(a, b) == NativeDiv(Trunc(ZeroExt(a, 4), 3), Trunc(ZeroExt(b, 4), 3))

\* AFD_DEFENSIVE_CHECKS testing equality before the zero divisor.
AFD_DEFENSIVE_CHECKS_equal_first(rest) ==
    IF EqualConv(udividend, udivisor) THEN Return(FromNat(1, 1), "early")
    ELSE IF IsZero(udivisor) THEN Return(Zero(1), "early")
    ELSE IF LessConv(udividend, udivisor) THEN Return(Zero(1), "early")
    ELSE rest
\* AFD_DEFENSIVE_CHECKS with AFD_ZERO_DIVISOR_CHECK defined empty.
AFD_DEFENSIVE_CHECKS_without_zero_check(rest) ==
    IF LessConv(udividend, udivisor) THEN Return(Zero(1), "early")
    ELSE IF EqualConv(udividend, udivisor) THEN Return(FromNat(1, 1), "early")
    ELSE rest
\* AFD_DEFENSIVE_CHECKS(dividend, divisor) followed by the rest of the body.
AFD_DEFENSIVE_CHECKS(rest) ==
    IF IsZero(udivisor) THEN Return(Zero(1), "early")
    ELSE IF LessConv(udividend, udivisor) THEN Return(Zero(1), "early")
    ELSE IF EqualConv(udividend, udivisor) THEN Return(FromNat(1, 1), "early")
    ELSE rest

\* static inline uint8_t fast_div(uint8_t, uint8_t)
hdr_fast_div_u8_u8 ==
    /\ call.facade = "hdr" /\ Overload(<<1, 1>>)
    /\ IF IsZero(udivisor)
       THEN Return(Zero(1), "early")
       ELSE Return(NativeDiv(udividend, udivisor), "native")

\* static inline uint16_t fast_div(uint16_t, uint8_t)
hdr_fast_div_u16_u8 ==
    /\ call.facade = "hdr" /\ Overload(<<2, 1>>)
    /\ AFD_DEFENSIVE_CHECKS(
         IF Greater(udivisor, HighHalf(udividend))
         THEN CallDivide(udividend, udivisor)
         ELSE Return(NativeDiv(udividend, udivisor), "native"))

\* static inline uint16_t fast_div(uint16_t, uint16_t)
hdr_fast_div_u16_u16 ==
    /\ call.facade = "hdr" /\ Overload(<<2, 2>>)
    /\ AFD_DEFENSIVE_CHECKS(
         IF LessEq(udivisor, UINT8_MAX)
         THEN CallFastDiv(udividend, Trunc(udivisor, 1))
         ELSE CallLarge("hdr_divide_large_divisor", udividend, udivisor))

\* static inline uint32_t fast_div(uint32_t, uint16_t)
hdr_fast_div_u32_u16 ==
    /\ call.facade = "hdr" /\ Overload(<<4, 2>>)
    /\ AFD_DEFENSIVE_CHECKS(
         IF Greater(udivisor, HighHalf(udividend))
         THEN CallDivide(udividend, udivisor)
         ELSE IF HasUint24 /\ Less(udividend, UINT24_MAX)
         THEN Return(NativeDiv24(udividend, udivisor), "native")
         ELSE Return(NativeDiv(udividend, udivisor), "native"))

\* static inline uint32_t fast_div(uint32_t, uint8_t)
hdr_fast_div_u32_u8 ==
    /\ call.facade = "hdr" /\ Overload(<<4, 1>>)
    /\ CallFastDiv(udividend, ZeroExt(udivisor, 2))

\* static inline uint32_t fast_div(uint32_t, uint32_t)
hdr_fast_div_u32_u32 ==
    /\ call.facade = "hdr" /\ Overload(<<4, 4>>)
    /\ AFD_DEFENSIVE_CHECKS(
         IF LessEq(udivisor, UINT16_MAX)
         THEN CallFastDiv(udividend, Trunc(udivisor, 2))
         ELSE IF HasUint24 /\ Less(udividend, UINT24_MAX) /\ Less(udivisor, UINT24_MAX)
         THEN Return(NativeDiv24(udividend, udivisor), "native")
         ELSE CallLarge("hdr_divide_large_divisor", udividend, udivisor))

\* The signed template passing the bit patterns on without safe_abs.
fast_div_signed_without_abs ==
    /\ pc = "fast_div_signed"
    /\ CallFastDiv(call.dividend, call.divisor)
\* template fast_div(TDividend, TDivisor) for signed types, up to the call of
\* the unsigned overload.
fast_div_signed ==
    /\ pc = "fast_div_signed"
    /\ CallFastDiv(safe_abs(call.dividend), safe_abs(call.divisor))

\* template fast_div(TDividend, TDivisor) for signed types, from the return
\* of the unsigned overload: restore the sign.
fast_div_signed_return ==
    /\ pc = "restore_sign"
    /\ LET isSameSign == TopBit(call.dividend) = TopBit(call.divisor)
       IN  IF ~isSameSign
           THEN result' \in negate_signed(result)
           ELSE result' = result
    /\ pc' = "done"
    /\ UNCHANGED <<call, depth, udividend, udivisor, index, bit, res, path, calls, subs>>

----------------------------------------------------------------------------
(* Restoring division core: avr_fast_div_impl::divide, the same text in    *)
(* afd_implementation.hpp and avr-fast-div.h.                              *)

\* One iteration of: for (index = 0; index < bit_width<TDivisor>; ++index)
divide_loop ==
    /\ pc = "divide"
    /\ index < bit_width(Len(udivisor))
    /\ udividend' = divide_step(udividend, udivisor)
    /\ index' = index + 1
    /\ UNCHANGED <<call, pc, depth, udivisor, bit, res, result, path, calls, subs>>

\* divide returning the upper word, the remainder.
divide_return_upper_word ==
    /\ pc = "divide"
    /\ ~(index < bit_width(Len(udivisor)))
    /\ Return(HighHalf(udividend), "core")
\* return (TDivisor)dividend;
divide_return ==
    /\ pc = "divide"
    /\ ~(index < bit_width(Len(udivisor)))
    /\ Return(Trunc(udividend, Len(udivisor)), "core")

----------------------------------------------------------------------------
(* optimized_div_impl::divide of src/include/avr_fast_div.h, in its        *)
(* assembler and its portable form.                                        *)

\* The value of divide(...) taken whole, without the mask of the caller.
old_divide_value_without_mask(v) == v
\* The value of divide(...) as its caller uses it: the older fast_div masks
\* it with 0x00FFU or 0x0000FFFFU, keeping the quotient half; the
\* implementation tests take it whole.
old_divide_value(v) == IF call.entry = "old_fast_div" THEN LowHalf(v) ELSE v

old_divide ==
    /\ pc \in {"old_divide", "old_divide_portable"}
    /\ IF IsZero(udivisor)
       THEN Return(old_divide_value(old_zero_divisor_result(Len(udivisor))), "early")
       ELSE /\ pc' = IF pc = "old_divide" THEN "old_divide_loop" ELSE "old_divide_portable_loop"
            /\ index' = 0
            /\ UNCHANGED <<call, depth, udividend, udivisor, bit, res, result, path, calls, subs>>

old_divide_loop ==
    /\ pc \in {"old_divide_loop", "old_divide_portable_loop"}
    /\ index < bit_width(Len(udivisor))
    /\ udividend' = IF pc = "old_divide_loop"
                    THEN divide_step(udividend, udivisor)
                    ELSE portable_divide_step(udividend, udivisor)
    /\ index' = index + 1
    /\ UNCHANGED <<call, pc, depth, udivisor, bit, res, result, path, calls, subs>>

\* return dividend;  or  return ((TDividend)rem << bit_count_divisor) | quot;
old_divide_return ==
    /\ pc \in {"old_divide_loop", "old_divide_portable_loop"}
    /\ ~(index < bit_width(Len(udivisor)))
    /\ Return(old_divide_value(udividend), "core")

----------------------------------------------------------------------------
(* The fast_div overloads of src/include/avr_fast_div.h. They have no      *)
(* zero-divisor check: a zero divisor reaches optimized_div_impl::divide   *)
(* or the native division.                                                 *)

\* udivResultFitsInDivisor also true when the divisor equals the high half of
\* the dividend.
udivResultFitsInDivisor_on_equal(dividend, divisor) ==
    LessEq(dividend, ZeroExt(divisor, Len(dividend))) \/ GreaterEq(divisor, HighHalf(dividend))
\* udivResultFitsInDivisor(dividend, divisor), for sizeof(TDividend) twice
\* sizeof(TDivisor): (dividend<=divisor) || divisor>(TDivisor)(dividend >> N)
udivResultFitsInDivisor(dividend, divisor) ==
    LessEq(dividend, ZeroExt(divisor, Len(dividend))) \/ Greater(divisor, HighHalf(dividend))

\* The overload of the older fast_div selected by the operand types.
OldOverload(t) == pc = "old_fast_div" /\ <<Len(udividend), Len(udivisor)>> = t

\* return fast_div(a, b); in the older header.
CallOldFastDiv(a, b) ==
    /\ pc' = "old_fast_div"
    /\ udividend' = a
    /\ udivisor' = b
    /\ depth' = depth + 1
    /\ calls' = Append(calls, "old_fast_div")
    /\ UNCHANGED <<call, index, bit, res, result, path, subs>>

\* return optimized_div_impl::divide(a, b) & mask;
CallOldDivide(a, b) ==
    /\ pc' = "old_divide"
    /\ udividend' = a
    /\ udivisor' = b
    /\ calls' = Append(calls, "old_divide")
    /\ UNCHANGED <<call, depth, index, bit, res, result, path, subs>>

\* A division by zero on the native operator is undefined behaviour: the AVR
\* library routine returns an all-ones quotient, other targets return 0, and
\* a host build traps and never returns.
DivideByZero ==
    \/ \E v \in {AllOnes(RetBytes), Zero(RetBytes)} : Return(v, "native")
    \/ /\ pc' = "trap"
       /\ UNCHANGED <<call, depth, udividend, udivisor, index, bit, res, result, path, calls, subs>>

\* return a / b;
OldNative(a, b) ==
    IF IsZero(b) THEN DivideByZero ELSE Return(NativeDiv(a, b), "native")

\* return (__uint24)a / (__uint24)b;
OldNative24(a, b) ==
    IF IsZero(b) THEN DivideByZero ELSE Return(NativeDiv24(a, b), "native")

\* static inline uint8_t fast_div(uint8_t, uint8_t)
old_fast_div_u8_u8 ==
    /\ OldOverload(<<1, 1>>)
    /\ OldNative(udividend, udivisor)

\* static inline uint16_t fast_div(uint16_t, uint8_t)
old_fast_div_u16_u8 ==
    /\ OldOverload(<<2, 1>>)
    /\ IF udivResultFitsInDivisor(udividend, udivisor)
       THEN CallOldDivide(udividend, udivisor)
       ELSE OldNative(udividend, udivisor)

\* static inline uint16_t fast_div(uint16_t, uint16_t)
old_fast_div_u16_u16 ==
    /\ OldOverload(<<2, 2>>)
    /\ IF Less(udivisor, UINT8_MAX)
       THEN CallOldFastDiv(udividend, Trunc(udivisor, 1))
       ELSE OldNative(udividend, udivisor)

\* static inline uint32_t fast_div(uint32_t, uint8_t)
old_fast_div_u32_u8 ==
    /\ OldOverload(<<4, 1>>)
    /\ IF Less(udividend, UINT16_MAX)
       THEN CallOldFastDiv(Trunc(udividend, 2), udivisor)
       ELSE OldNative(udividend, udivisor)

\* static inline uint32_t fast_div(uint32_t, uint16_t)
old_fast_div_u32_u16 ==
    /\ OldOverload(<<4, 2>>)
    /\ IF udivResultFitsInDivisor(udividend, udivisor)
       THEN CallOldDivide(udividend, udivisor)
       ELSE IF HasUint24 /\ Less(udividend, UINT24_MAX)
       THEN OldNative24(udividend, udivisor)
       ELSE OldNative(udividend, udivisor)

\* static inline uint32_t fast_div(uint32_t, uint32_t)
old_fast_div_u32_u32 ==
    /\ OldOverload(<<4, 4>>)
    /\ IF Less(udivisor, UINT16_MAX)
       THEN CallOldFastDiv(udividend, Trunc(udivisor, 2))
       ELSE IF HasUint24 /\ Less(udividend, UINT24_MAX) /\ Less(udivisor, UINT24_MAX)
       THEN OldNative24(udividend, udivisor)
       ELSE OldNative(udividend, udivisor)

----------------------------------------------------------------------------
(* Large-divisor alignment divider.                                        *)

\* Entry of align(udividend, udivisor): T bit = 1;
EnterAlign ==
    /\ pc' = "align"
    /\ bit' = FromNat(1, Len(udividend))
    /\ calls' = Append(calls, "align")
    /\ UNCHANGED <<call, depth, udividend, udivisor, index, res, result, path, subs>>

\* divide_large_divisor without the return for udividend < udivisor.
divide_large_divisor_without_early_return ==
    /\ pc = "divide_large_divisor"
    /\ IF call.unit_test /\ LessEq(udivisor, get_large_divisor_threshhold(Len(udivisor)))
       THEN Return(Zero(1), "large")
       ELSE EnterAlign
\* divide_large_divisor of afd_implementation.hpp, up to the call of align.
divide_large_divisor ==
    /\ pc = "divide_large_divisor"
    /\ IF call.unit_test /\ LessEq(udivisor, get_large_divisor_threshhold(Len(udivisor)))
       THEN Return(Zero(1), "large")
       ELSE IF Less(udividend, udivisor)
       THEN Return(Zero(1), "large")
       ELSE EnterAlign

\* divide_large_divisor of avr-fast-div.h, up to the call of align.
hdr_divide_large_divisor ==
    /\ pc = "hdr_divide_large_divisor"
    /\ IF call.unit_test /\ LessEq(udivisor, get_large_divisor_threshhold(Len(udivisor)))
       THEN Return(Zero(1), "large")
       ELSE EnterAlign

\* while (!is_aligned(reference, dependent)): the test, entering the body.
align ==
    /\ pc = "align"
    /\ ~is_aligned(udividend, udivisor)
    /\ pc' = "align_shift"
    /\ UNCHANGED <<call, depth, udividend, udivisor, index, bit, res, result, path, calls, subs>>

\* The body without bit = (T)(bit<<1U).
align_shift_without_bit ==
    /\ pc = "align_shift"
    /\ udivisor' = Shl1(udivisor)
    /\ pc' = "align"
    /\ UNCHANGED <<call, depth, udividend, index, bit, res, result, path, calls, subs>>
\* The body: dependent = (T)(dependent<<1U); bit = (T)(bit<<1U); and back to
\* the test.
align_shift ==
    /\ pc = "align_shift"
    /\ udivisor' = Shl1(udivisor)
    /\ bit' = Shl1(bit)
    /\ pc' = "align"
    /\ UNCHANGED <<call, depth, udividend, index, res, result, path, calls, subs>>

\* The code after align keeping bit as align returned it: one iteration more.
divide_large_divisor_aligned_without_bit_halving ==
    /\ pc = "align"
    /\ is_aligned(udividend, udivisor)
    /\ udividend' = Sub(udividend, udivisor)
    /\ res' = bit
    /\ udivisor' = Shr1(udivisor)
    /\ subs' = subs + 1
    /\ pc' = "large_loop"
    /\ UNCHANGED <<call, depth, index, bit, result, path, calls>>
\* The first halving keeping the aligned divisor: bit and divisor out of step.
divide_large_divisor_aligned_without_halving ==
    /\ pc = "align"
    /\ is_aligned(udividend, udivisor)
    /\ udividend' = Sub(udividend, udivisor)
    /\ res' = bit
    /\ bit' = Shr1(bit)
    /\ subs' = subs + 1
    /\ pc' = "large_loop"
    /\ UNCHANGED <<call, depth, udivisor, index, result, path, calls>>
\* align returns bit; then the first subtraction and the first halving.
divide_large_divisor_aligned ==
    /\ pc = "align"
    /\ is_aligned(udividend, udivisor)
    /\ udividend' = Sub(udividend, udivisor)
    /\ res' = bit
    /\ bit' = Shr1(bit)
    /\ udivisor' = Shr1(udivisor)
    /\ subs' = subs + 1
    /\ pc' = "large_loop"
    /\ UNCHANGED <<call, depth, index, result, path, calls>>

\* The iteration subtracting only when udividend > udivisor.
divide_large_divisor_loop_strict ==
    /\ pc = "large_loop"
    /\ ~IsZero(bit)
    /\ IF Greater(udividend, udivisor)
       THEN /\ udividend' = Sub(udividend, udivisor)
            /\ res' = Or(res, bit)
            /\ subs' = subs + 1
       ELSE UNCHANGED <<udividend, res, subs>>
    /\ bit' = Shr1(bit)
    /\ udivisor' = Shr1(udivisor)
    /\ UNCHANGED <<call, pc, depth, index, result, path, calls>>
\* One iteration of: while (bit)
divide_large_divisor_loop ==
    /\ pc = "large_loop"
    /\ ~IsZero(bit)
    /\ IF GreaterEq(udividend, udivisor)
       THEN /\ udividend' = Sub(udividend, udivisor)
            /\ res' = Or(res, bit)
            /\ subs' = subs + 1
       ELSE UNCHANGED <<udividend, res, subs>>
    /\ bit' = Shr1(bit)
    /\ udivisor' = Shr1(udivisor)
    /\ UNCHANGED <<call, pc, depth, index, result, path, calls>>

\* return res;
divide_large_divisor_return ==
    /\ pc = "large_loop"
    /\ IsZero(bit)
    /\ Return(res, "large")

----------------------------------------------------------------------------

Next ==
    \/ cpp_fast_div16_8
    \/ cpp_fast_div32_16
    \/ cpp_fast_div_u8_u8
    \/ cpp_fast_div_u16_u8
    \/ cpp_fast_div_u16_u16
    \/ cpp_fast_div_u32_u16
    \/ cpp_fast_div_u32_u8
    \/ cpp_fast_div_u32_u32
    \/ hdr_fast_div_u8_u8
    \/ hdr_fast_div_u16_u8
    \/ hdr_fast_div_u16_u16
    \/ hdr_fast_div_u32_u16
    \/ hdr_fast_div_u32_u8
    \/ hdr_fast_div_u32_u32
    \/ fast_div_signed
    \/ fast_div_signed_return
    \/ divide_loop
    \/ divide_return
    \/ old_fast_div_u8_u8
    \/ old_fast_div_u16_u8
    \/ old_fast_div_u16_u16
    \/ old_fast_div_u32_u8
    \/ old_fast_div_u32_u16
    \/ old_fast_div_u32_u32
    \/ old_divide
    \/ old_divide_loop
    \/ old_divide_return
    \/ divide_large_divisor
    \/ hdr_divide_large_divisor
    \/ align
    \/ align_shift
    \/ divide_large_divisor_aligned
    \/ divide_large_divisor_loop
    \/ divide_large_divisor_return

Spec == Init /\ [][Next]_vars

\* Every function runs on: a step that is enabled is eventually taken.
FairSpec == Spec /\ WF_vars(Next)

TypeOK ==
    /\ pc \in {"fast_div", "fast_div_signed", "restore_sign", "fast_div16_8", "fast_div32_16",
               "divide", "old_divide", "old_divide_portable", "old_divide_loop",
               "old_divide_portable_loop", "divide_large_divisor",
               "hdr_divide_large_divisor", "align", "align_shift", "large_loop", "done",
               "old_fast_div", "trap"}
    /\ \A i \in 1..Len(udividend) : udividend[i] \in 0..255
    /\ \A i \in 1..Len(udivisor) : udivisor[i] \in 0..255
    /\ pc = "done" => Len(result) = RetBytes

----------------------------------------------------------------------------
(* Properties.                                                             *)

Done == pc = "done"
Types == <<Len(call.dividend), Len(call.divisor)>>
UnsignedFastDiv(f) == call.entry = "fast_div" /\ call.facade = f /\ ~call.signed

\* |x| of a signed bit pattern, as an unsigned value of the same width.
Magnitude(x) == IF TopBit(x) THEN Sub(Zero(Len(x)), x) ELSE x

\* r is the truncating (round toward zero) signed quotient a / b: |r| is
\* floor(|a| / |b|), and r is negative exactly when it is not zero and the
\* signs of a and b differ.
IsSignedQuotient(a, b, r) ==
    /\ IsQuotient(Magnitude(a), Magnitude(b), Magnitude(r))
    /\ IsZero(r) \/ (TopBit(r) <=> (TopBit(a) # TopBit(b)))

\* C1: the out-of-line fast_div(u8,u8), fast_div(u16,u8), fast_div(u32,u16)
\* and fast_div(u32,u8) return floor(dividend / divisor) for every divisor
\* other than 0, on the restoring-core branch and on the native branch.
C1_MixedWidthQuotient ==
    (Done /\ UnsignedFastDiv("cpp") /\ Types \in {<<1, 1>>, <<2, 1>>, <<4, 2>>, <<4, 1>>}
          /\ ~IsZero(call.divisor))
        => (/\ IsQuotient(call.dividend, call.divisor, result)
            /\ path \in {"core", "native"})

\* C1 witness: fast_div(u32,u16) took the restoring core and returned 7905.
C1_Witness ==
    /\ Done /\ UnsignedFastDiv("cpp") /\ Types = <<4, 2>>
    /\ path = "core"
    /\ call.dividend = FromNat(60000000, 4) /\ call.divisor = FromNat(7590, 2)
    /\ result = FromNat(7905, 4)

\* C2: the out-of-line fast_div(u16,u16) and fast_div(u32,u32) return
\* floor(dividend / divisor) for every divisor other than 0, with the divisor
\* narrowed (<= 255, <= 65535) or passed to divide_large_divisor (above).
C2_SameWidthQuotient ==
    (Done /\ UnsignedFastDiv("cpp") /\ Types \in {<<2, 2>>, <<4, 4>>}
          /\ ~IsZero(call.divisor))
        => (/\ IsQuotient(call.dividend, call.divisor, result)
            /\ (path = "large") <=>
                   Greater(call.divisor, get_large_divisor_threshhold(Len(call.divisor))))

\* C2 witness: fast_div(0xFFFFFFFF, 65536) went to divide_large_divisor and
\* returned 65535.
C2_Witness ==
    /\ Done /\ UnsignedFastDiv("cpp") /\ Types = <<4, 4>>
    /\ path = "large"
    /\ call.dividend = AllOnes(4) /\ call.divisor = FromNat(65536, 4)
    /\ result = FromNat(65535, 4)

\* C3: the signed fast_div returns the truncating signed quotient a / b for
\* every a (the minimum included) and every b other than 0, except for
\* (a, b) = (minimum, -1).
C3_SignedQuotient ==
    (Done /\ call.entry = "fast_div" /\ call.signed /\ ~IsZero(call.divisor)
          /\ ~(call.dividend = SignedMin(Len(call.dividend))
               /\ call.divisor = AllOnes(Len(call.divisor))))
        => IsSignedQuotient(call.dividend, call.divisor, result)

\* The signed fast_div is right wherever the quotient is not the minimum of
\* the dividend type, that is wherever the restored sign does not overflow.
SignedQuotientWithoutOverflow ==
    (Done /\ call.entry = "fast_div" /\ call.signed /\ ~IsZero(call.divisor)
          /\ ~(call.dividend = SignedMin(Len(call.dividend))
               /\ Magnitude(call.divisor) = FromNat(1, Len(call.divisor))))
        => IsSignedQuotient(call.dividend, call.divisor, result)

\* C4: with the default AFD_ZERO_DIVISOR_CHECK every fast_div overload,
\* unsigned or signed, returns 0 for a divisor of 0, whatever the dividend.
C4_ZeroDivisorReturnsZero ==
    (Done /\ call.entry = "fast_div" /\ IsZero(call.divisor)) => IsZero(result)

\* C4 witness: the signed fast_div(INT32_MIN, 0) returned 0.
C4_Witness ==
    /\ Done /\ call.entry = "fast_div" /\ call.signed
    /\ call.dividend = SignedMin(4) /\ IsZero(call.divisor)
    /\ IsZero(result)

\* The narrowing precondition of the restoring core.
NarrowingPrecondition(a, b) == ~IsZero(b) /\ Greater(b, HighHalf(a))

\* C5: avr_fast_div_impl::divide(dividend, divisor), for u16/u8 and u32/u16,
\* returns floor(dividend / divisor) whenever divisor # 0 and
\* divisor > (dividend >> N).
C5_DivideQuotient ==
    (Done /\ call.entry = "divide"
          /\ NarrowingPrecondition(call.dividend, call.divisor))
        => IsQuotient(call.dividend, call.divisor, result)

\* C5 witness: divide(60000000, 7590) returned 7905.
C5_Witness ==
    /\ Done /\ call.entry = "divide"
    /\ call.dividend = FromNat(60000000, 4) /\ call.divisor = FromNat(7590, 2)
    /\ index = 16
    /\ result = FromNat(7905, 2)

\* C6: optimized_div_impl::divide returns the whole working register: under
\* the narrowing precondition its low half is dividend / divisor and its
\* high half is dividend % divisor.
C6_QuotientAndRemainder ==
    (Done /\ call.entry \in {"old_divide", "old_divide_portable"}
          /\ NarrowingPrecondition(call.dividend, call.divisor))
        => IsQuotRem(call.dividend, call.divisor, LowHalf(result), HighHalf(result))

\* C6 witness: divide(1784, 7) returned quotient 254 and remainder 6.
C6_Witness ==
    /\ Done /\ call.entry = "old_divide_portable"
    /\ call.dividend = FromNat(1784, 2) /\ call.divisor = FromNat(7, 1)
    /\ result = <<254, 6>>

\* C7: in the production build divide_large_divisor of afd_implementation.hpp
\* returns floor(dividend / divisor) whenever 1 <= divisor <= dividend,
\* for small divisors too.
C7_LargeDivisorQuotient ==
    (Done /\ call.entry = "divide_large_divisor" /\ ~call.unit_test
          /\ ~IsZero(call.divisor) /\ LessEq(call.divisor, call.dividend))
        => IsQuotient(call.dividend, call.divisor, result)

\* C7 witness: divide_large_divisor(0xFFFFFFFF, 1) returned 0xFFFFFFFF.
C7_Witness ==
    /\ Done /\ call.entry = "divide_large_divisor" /\ ~call.unit_test
    /\ call.dividend = AllOnes(4) /\ call.divisor = FromNat(1, 4)
    /\ result = AllOnes(4)

\* C8: divide_large_divisor of afd_implementation.hpp returns 0 whenever
\* dividend < divisor, and does so without entering align and without a
\* subtraction.
C8_SmallDividendReturnsZero ==
    (call.entry = "divide_large_divisor" /\ Less(call.dividend, call.divisor))
        => (/\ pc \in {"divide_large_divisor", "done"}
            /\ subs = 0
            /\ \A i \in 1..Len(calls) : calls[i] # "align"
            /\ Done => IsZero(result))

\* C8 witness: divide_large_divisor(65535, 65536) returned 0 in the
\* production build.
C8_Witness ==
    /\ Done /\ call.entry = "divide_large_divisor" /\ ~call.unit_test
    /\ call.dividend = FromNat(65535, 4) /\ call.divisor = FromNat(65536, 4)
    /\ IsZero(result)

\* How often function f was entered.
Entered(f) == Cardinality({i \in 1..Len(calls) : calls[i] = f})

\* C9: every call of a fast_div overload terminates; it makes at most two
\* nested fast_div calls and ends in exactly one of an early return, native
\* division, the restoring core with exactly N steps, or
\* divide_large_divisor.
C9_FastDivTerminates ==
    /\ [](call.entry = "fast_div" =>
            /\ depth <= 2
            /\ Entered("divide") + Entered("divide_large_divisor")
                   + Entered("hdr_divide_large_divisor") <= 1
            /\ Done =>
                /\ path \in {"early", "native", "core", "large"}
                /\ (path = "core") <=> (Entered("divide") = 1)
                /\ (path = "large") <=> (Entered("divide_large_divisor")
                                           + Entered("hdr_divide_large_divisor") = 1)
                /\ (path = "core") => (index = 8 * Len(udivisor))
                /\ (path # "core") => (index = 0))
    /\ (call.entry = "fast_div") ~> Done

\* C9 witness: a signed 32-bit call nested twice and ended in the core.
C9_Witness ==
    /\ Done /\ call.entry = "fast_div" /\ call.signed
    /\ depth = 2 /\ path = "core" /\ index = 16

\* C10: in the production build divide_large_divisor terminates for every
\* dividend and divisor, the divisor 0 included.
C10_LargeDivisorTerminates ==
    (call.entry = "divide_large_divisor" /\ ~call.unit_test) ~> Done

\* C11: optimized_div_impl::divide(dividend, 0) returns, for every dividend,
\* a register whose low half (quotient) is all ones, 2^N - 1, and whose high
\* half (remainder) is 0.
C11_ZeroDivisorQuotientAndRemainder ==
    (Done /\ call.entry \in {"old_divide", "old_divide_portable"} /\ IsZero(call.divisor))
        => (/\ LowHalf(result) = AllOnes(Len(call.divisor))
            /\ IsZero(HighHalf(result)))

\* C12: the signed fast_div(minimum, -1) returns the minimum of the dividend
\* type, the W-bit wrap of the quotient 2^(W-1), for W = 8, 16 and 32.
C12_MinimumByMinusOne ==
    (Done /\ call.entry = "fast_div" /\ call.signed
          /\ call.dividend = SignedMin(Len(call.dividend))
          /\ call.divisor = AllOnes(Len(call.divisor)))
        => result = SignedMin(Len(call.dividend))

\* C12 witness: fast_div(INT16_MIN, (int16_t)-1) returned INT16_MIN.
C12_Witness ==
    /\ Done /\ call.entry = "fast_div" /\ call.signed /\ Types = <<2, 2>>
    /\ call.dividend = <<0, 128>> /\ call.divisor = <<255, 255>>
    /\ result = <<0, 128>>

\* u is |x| for the signed bit pattern x: x itself when x >= 0, otherwise the
\* value in 1 .. 2^(W-1) with u + x = 2^W.
IsAbsoluteValue(x, u) ==
    IF ~TopBit(x) THEN u = x
    ELSE /\ ~IsZero(u)
         /\ LessEq(u, SignedMin(Len(x)))
         /\ Add(ZeroExt(u, Len(x) + 1), ZeroExt(x, Len(x) + 1))
                = ShiftBytes(<<1>>, Len(x), Len(x) + 1)

C14_NoAlgorithmWithZeroDivisor ==
    (call.entry \in {"fast_div", "fast_div16_8", "fast_div32_16"})
        => (/\ (pc \in {"divide", "divide_large_divisor", "hdr_divide_large_divisor"})
                   => ~IsZero(udivisor)
            /\ (path = "native") => ~IsZero(udivisor)
            /\ IsZero(call.divisor) =>
                   /\ path \in {"none", "early"}
                   /\ \A i \in 1..Len(calls) :
                          calls[i] \in {"fast_div", "fast_div_signed",
                                        "fast_div16_8", "fast_div32_16"})

\* C14 witness: fast_div16_8(65025, 0) returned early from the entry point.
C14_Witness ==
    /\ Done /\ call.entry = "fast_div16_8"
    /\ call.dividend = FromNat(65025, 2) /\ IsZero(call.divisor)
    /\ path = "early" /\ calls = <<"fast_div16_8">>

\* C15: whenever a fast_div overload calls divide(dividend, divisor), the
\* divisor is not 0 and is above the high half of the dividend, so the
\* quotient fits the width of the divisor.
C15_CoreCalledUnderPrecondition ==
    (call.entry = "fast_div" /\ pc = "divide" /\ index = 0)
        => (/\ NarrowingPrecondition(udividend, udivisor)
            /\ IsZero(HighHalf(NativeDiv(udividend, udivisor))))

\* C15 witness: fast_div((uint16_t)60000, (uint16_t)255) narrowed the divisor
\* and is at the call of divide(60000, (uint8_t)255).
C15_Witness ==
    /\ call.entry = "fast_div" /\ call.facade = "cpp" /\ ~call.signed
    /\ call.dividend = FromNat(60000, 2) /\ call.divisor = FromNat(255, 2)
    /\ pc = "divide" /\ index = 0 /\ depth = 1
    /\ udivisor = <<255>>

\* C16: fast_div16_8(a, b) and fast_div32_16(a, b) return 0 when b is 0 and
\* floor(a / b) whenever b > (a >> N), up to (MAX * MAX, MAX) -> MAX.
C16_DirectNarrowingEntries ==
    (Done /\ call.entry \in {"fast_div16_8", "fast_div32_16"})
        => (/\ IsZero(call.divisor) => IsZero(result)
            /\ NarrowingPrecondition(call.dividend, call.divisor)
                   => IsQuotient(call.dividend, call.divisor, result))

\* C16 witness: fast_div32_16(UINT16_MAX * UINT16_MAX, UINT16_MAX) returned
\* UINT16_MAX.
C16_Witness ==
    /\ Done /\ call.entry = "fast_div32_16"
    /\ call.dividend = <<1, 0, 254, 255>> /\ call.divisor = <<255, 255>>
    /\ result = <<255, 255>>

\* C17: built with UNIT_TEST, divide_large_divisor returns 0 for every
\* dividend when the divisor is at most 255 (uint16_t) or 65535 (uint32_t),
\* and floor(dividend / divisor) for every divisor above.
C17_UnitTestLargeDivisor ==
    (Done /\ call.entry = "divide_large_divisor" /\ call.unit_test)
        => IF LessEq(call.divisor, IF Len(call.divisor) = 2 THEN UINT8_MAX ELSE UINT16_MAX)
           THEN IsZero(result)
           ELSE IsQuotient(call.dividend, call.divisor, result)

\* C17 witness: in the unit-test build divide_large_divisor(0xFFFFFFFF, 65535)
\* returned 0.
C17_Witness ==
    /\ Done /\ call.entry = "divide_large_divisor" /\ call.unit_test
    /\ call.dividend = AllOnes(4) /\ call.divisor = FromNat(65535, 4)
    /\ IsZero(result)

\* C18: outside the narrowing precondition, with all-ones operands,
\* optimized_div_impl::divide(2^(2N) - 1, 2^N - 1) returns a quotient half of
\* 2^(N-1), which is not the true quotient 2^N + 1 truncated to N bits.
C18_AllOnesOutsidePrecondition ==
    (Done /\ call.entry \in {"old_divide", "old_divide_portable"}
          /\ call.dividend = AllOnes(Len(call.dividend))
          /\ call.divisor = AllOnes(Len(call.divisor)))
        => (/\ LowHalf(result) = SignedMin(Len(call.divisor))
            /\ LowHalf(result) # LowHalf(NativeDiv(call.dividend, call.divisor)))

\* C18 witness: divide((uint16_t)0xFFFF, (uint8_t)0xFF) returned a quotient
\* half of 0x80.
C18_Witness ==
    /\ Done /\ call.entry = "old_divide"
    /\ call.dividend = <<255, 255>> /\ call.divisor = <<255>>
    /\ LowHalf(result) = <<128>>

\* The restoring core is in its loop, entered under the narrowing
\* precondition: directly with such operands, or from a fast_div overload.
CoreUnderPrecondition ==
    /\ pc \in {"divide", "old_divide_loop", "old_divide_portable_loop"}
    /\ \/ call.entry \in {"fast_div", "old_fast_div"}
       \/ NarrowingPrecondition(call.dividend, call.divisor)

\* One iteration of the core, on the exact (N+1)-bit value carry:high: it is
\* below 2 * divisor, the divisor is subtracted exactly when it is at least
\* the divisor, and the new high half is that exact value, below the divisor.
CoreStepRestores ==
    LET w == Len(udivisor) + 1
        high == HighHalf(udividend)
        low == LowHalf(udividend)
        d == ZeroExt(udivisor, w)
        shifted == Add(Shl1(ZeroExt(high, w)), FromNat(IF TopBit(low) THEN 1 ELSE 0, w))
        high1 == ZeroExt(HighHalf(udividend'), w)
        low1 == LowHalf(udividend')
    IN  /\ Less(shifted, Shl1(d))
        /\ IF GreaterEq(shifted, d)
           THEN high1 = Sub(shifted, d) /\ low1 = Or(Shl1(low), FromNat(1, w - 1))
           ELSE high1 = shifted /\ low1 = Shl1(low)
        /\ Less(high1, d)

\* C19: in the restoring core entered with divisor # 0 and
\* divisor > (dividend >> N), the high half is below the divisor before every
\* iteration; after the shift carry:high is below 2 * divisor, and one
\* subtraction, taken when carry:high >= divisor, leaves the exact remainder
\* below the divisor.
C19_CoreLoopInvariant ==
    /\ [](CoreUnderPrecondition => Less(HighHalf(udividend), udivisor))
    /\ [][(CoreUnderPrecondition /\ index' = index + 1) => CoreStepRestores]_vars

\* C19 witness: divide(60000000, 7590) after its 16 iterations, with the
\* remainder 1050 in the high half.
C19_Witness ==
    /\ call.entry = "divide" /\ pc = "divide" /\ index = 16
    /\ call.dividend = FromNat(60000000, 4) /\ call.divisor = FromNat(7590, 2)
    /\ HighHalf(udividend) = FromNat(1050, 2)

\* The number of bits set in a byte, and in a value.
RECURSIVE OnesInByte(_)
OnesInByte(x) == IF x = 0 THEN 0 ELSE (x % 2) + OnesInByte(x \div 2)
RECURSIVE OnesFrom(_, _)
OnesFrom(a, i) == IF i > Len(a) THEN 0 ELSE OnesInByte(a[i]) + OnesFrom(a, i + 1)

\* The state in which align returns to divide_large_divisor: bit is a power of
\* two, the shifted divisor is exactly divisor * bit, and
\* shifted divisor <= dividend < 2 * shifted divisor.
AlignPostcondition ==
    LET n == Len(udivisor)
    IN  /\ OnesFrom(bit, 1) = 1
        /\ Mul(call.divisor, bit) = ZeroExt(udivisor, 2 * n)
        /\ udividend = call.dividend
        /\ LessEq(udivisor, udividend)
        /\ Less(ZeroExt(udividend, n + 1), Shl1(ZeroExt(udivisor, n + 1)))

\* C20: in divide_large_divisor called with 1 <= divisor <= dividend, align
\* returns with shifted divisor = divisor * bit, bit a power of two and no bit
\* of the divisor lost, and shifted divisor <= dividend < 2 * shifted divisor,
\* so the subtraction that follows does not wrap.
C20_AlignPostcondition ==
    [][(/\ call.entry = "divide_large_divisor"
        /\ ~IsZero(call.divisor) /\ LessEq(call.divisor, call.dividend)
        /\ pc = "align" /\ pc' = "large_loop")
         => (/\ AlignPostcondition
             /\ ZeroExt(udividend', Len(udividend) + 1)
                    = Sub(ZeroExt(udividend, Len(udividend) + 1),
                          ZeroExt(udivisor, Len(udividend) + 1)))]_vars

\* C20 witness: divide_large_divisor(0xFFFFFFFF, 1) just after align returned
\* bit = 2^31 and the first subtraction left 0x7FFFFFFF.
C20_Witness ==
    /\ call.entry = "divide_large_divisor" /\ ~call.unit_test
    /\ call.dividend = AllOnes(4) /\ call.divisor = FromNat(1, 4)
    /\ pc = "large_loop" /\ subs = 1
    /\ res = <<0, 0, 0, 128>> /\ udividend = <<255, 255, 255, 127>>

\* The loop invariant of divide_large_divisor at the test of while (bit):
\* the quotient bits found so far and the remaining dividend account for the
\* whole dividend; the divisor is the original one times bit, so that halving
\* it loses no low bit; and the remaining dividend is below twice the current
\* divisor, or below the original divisor once bit is 0.
LargeLoopInvariant ==
    LET n == Len(udividend)
    IN  /\ Add(Mul(res, call.divisor), ZeroExt(udividend, 2 * n)) = ZeroExt(call.dividend, 2 * n)
        /\ IF IsZero(bit)
           THEN Less(udividend, call.divisor)
           ELSE /\ Mul(call.divisor, bit) = ZeroExt(udivisor, 2 * n)
                /\ Less(ZeroExt(udividend, n + 1), Shl1(ZeroExt(udivisor, n + 1)))

\* C21: in divide_large_divisor of afd_implementation.hpp run with
\* 1 <= divisor <= dividend, at every evaluation of the while (bit) condition
\* dividend0 = res * divisor0 + dividend, divisor = divisor0 * bit when bit is
\* not 0, and dividend < 2 * divisor (dividend < divisor0 once bit is 0).
C21_LargeDivisorLoopInvariant ==
    (/\ call.facade = "cpp" /\ pc = "large_loop"
     /\ ~IsZero(call.divisor) /\ LessEq(call.divisor, call.dividend))
        => LargeLoopInvariant

\* C21 witness: divide_large_divisor(0xFFFFFFFF, 1) at the last test of the
\* loop, after 32 subtractions: bit = 0, res = 0xFFFFFFFF, dividend = 0.
C21_Witness ==
    /\ call.facade = "cpp" /\ call.entry = "divide_large_divisor"
    /\ call.dividend = AllOnes(4) /\ call.divisor = FromNat(1, 4)
    /\ pc = "large_loop" /\ IsZero(bit) /\ res = AllOnes(4) /\ IsZero(udividend)
    /\ subs = 32

\* The unsigned division of fast_div(uint16_t, uint8_t) of avr-fast-div.cpp
\* or avr-fast-div.h has returned from its native division.
NativeFallback16 ==
    /\ call.entry = "fast_div" /\ call.facade \in {"cpp", "hdr"}
    /\ path = "native" /\ Len(udividend) = 2 /\ Len(udivisor) = 1

NativeFallback32 ==
    /\ call.entry = "fast_div" /\ call.facade \in {"cpp", "hdr"}
    /\ path = "native" /\ Len(udividend) = 4
    /\ call.facade = "hdr" => Len(udivisor) = 2

\* udivisor * 65536, computed without overflow.
TimesUint16Range(d) == Mul(ZeroExt(d, 4), FromNat(65536, 4))

LargeDivisorInvoked ==
    /\ call.entry = "fast_div"
    /\ pc \in {"divide_large_divisor", "hdr_divide_large_divisor"}

\* C24: whenever fast_div(u16, u16) or fast_div(u32, u32) invokes
\* divide_large_divisor the divisor is greater than 255, respectively 65535,
\* so its upper half is not zero; in the header-only variant the dividend is
\* also greater than the divisor.
C24_LargeDivisorInvocation ==
    LargeDivisorInvoked
        => /\ Len(udividend) = Len(udivisor) /\ Len(udivisor) \in {2, 4}
           /\ Greater(ZeroExt(udivisor, 4),
                      IF Len(udivisor) = 2 THEN FromNat(255, 4) ELSE FromNat(65535, 4))
           /\ ~IsZero(HighHalf(udivisor))
           /\ pc = "hdr_divide_large_divisor" => Greater(udividend, udivisor)

\* C24 witness: the header-only fast_div((uint16_t)60000, (uint16_t)256) has
\* passed the defensive checks and called divide_large_divisor(60000, 256).
C24_Witness ==
    /\ LargeDivisorInvoked /\ call.facade = "hdr" /\ ~call.signed
    /\ pc = "hdr_divide_large_divisor"
    /\ udividend = FromNat(60000, 2) /\ udivisor = FromNat(256, 2)
    /\ calls = <<"fast_div", "hdr_divide_large_divisor">>

\* floor(dividend / divisor) <= 2^N - 1 for an N-bit divisor other than 0:
\* the quotient has no bit in its upper half.
QuotientFitsInDivisor(dividend, divisor) == IsZero(HighHalf(NativeDiv(dividend, divisor)))

\* C25: in the older header, for a dividend of 2N bits and a divisor of N bits
\* other than 0, udivResultFitsInDivisor is true exactly when
\* floor(dividend / divisor) <= 2^N - 1; fast_div(u16, u8) and
\* fast_div(u32, u16) so send to the restoring core only quotients that fit,
\* and to the native division only quotients that do not.
C25_ResultFitsExact ==
    (/\ call.entry = "old_fast_div"
     /\ Len(udividend) = 2 * Len(udivisor) /\ ~IsZero(udivisor))
        => /\ pc = "old_fast_div"
                => (udivResultFitsInDivisor(udividend, udivisor)
                        <=> QuotientFitsInDivisor(udividend, udivisor))
           /\ pc = "old_divide" => QuotientFitsInDivisor(udividend, udivisor)
           /\ path = "native" => ~QuotientFitsInDivisor(udividend, udivisor)

\* C25 witness: the older fast_div((uint16_t)65535, (uint8_t)255), whose
\* divisor equals the high byte of the dividend: the quotient 257 does not
\* fit in a byte and came from the native division.
C25_Witness ==
    /\ call.entry = "old_fast_div" /\ Done /\ path = "native"
    /\ udividend = AllOnes(2) /\ udivisor = AllOnes(1)
    /\ ~udivResultFitsInDivisor(udividend, udivisor)
    /\ result = FromNat(257, 2)

\* An unsigned fast_div overload of one of the three variants, called with a
\* divisor other than 0, has returned.
UnsignedFastDivReturned(f) ==
    /\ call.facade = f /\ call.entry = (IF f = "old" THEN "old_fast_div" ELSE "fast_div")
    /\ ~call.signed /\ ~IsZero(call.divisor) /\ Done

\* C29: for every unsigned overload and every divisor other than 0,
\* avr-fast-div.cpp, avr-fast-div.h and the older avr_fast_div.h return the
\* same value: each returns the one value dividend / divisor that is a
\* function of the operands alone.
C29_FacadesAgree ==
    \A f \in {"cpp", "hdr", "old"} :
        UnsignedFastDivReturned(f) => result = NativeDiv(call.dividend, call.divisor)

\* C29 witness: the older fast_div((uint32_t)0xFFFE0001, (uint16_t)65535),
\* narrowed to the restoring core and masked to the quotient 65535.
C29_Witness ==
    /\ UnsignedFastDivReturned("old") /\ path = "core"
    /\ call.dividend = <<1, 0, 254, 255>> /\ call.divisor = AllOnes(2)
    /\ result = FromNat(65535, 4)

\* The overloads of avr-fast-div.h that begin with AFD_DEFENSIVE_CHECKS.
DefensiveOverloads == {<<2, 1>>, <<2, 2>>, <<4, 2>>, <<4, 4>>}

\* C26: in the header-only facade the overloads guarded by
\* AFD_DEFENSIVE_CHECKS test the zero divisor first, then dividend < divisor,
\* then dividend == divisor: fast_div(0, 0) returns 0, fast_div(a, b) returns
\* 0 for a < b, fast_div(a, a) returns 1 for a # 0, and none of them enters
\* divide, divide_large_divisor or the native division.
C26_DefensiveChecksOrder ==
    (/\ UnsignedFastDiv("hdr") /\ Types \in DefensiveOverloads
     /\ \/ IsZero(call.divisor)
        \/ LessConv(call.dividend, call.divisor)
        \/ EqualConv(call.dividend, call.divisor))
        => /\ calls = <<"fast_div">>
           /\ pc \in {"fast_div", "done"}
           /\ path \in {"none", "early"}
           /\ Done => /\ path = "early"
                      /\ result = FromNat(IF IsZero(call.divisor) THEN 0
                                          ELSE IF LessConv(call.dividend, call.divisor) THEN 0
                                          ELSE 1, RetBytes)

\* C26 witness: the header-only fast_div((uint32_t)0, (uint32_t)0) returned 0
\* from the zero-divisor check, although dividend == divisor.
C26_Witness ==
    /\ UnsignedFastDiv("hdr") /\ Types = <<4, 4>> /\ Done
    /\ IsZero(call.dividend) /\ IsZero(call.divisor)
    /\ EqualConv(call.dividend, call.divisor)
    /\ path = "early" /\ IsZero(result) /\ calls = <<"fast_div">>

\* C27: in the signed overload called with a divisor other than 0, the
\* negation that restores the sign, -((TDividend)uresult), is never applied
\* to uresult = 2^(W-1), the bit pattern of the minimum of TDividend.
C27_NegationNeverOnMinimum ==
    (/\ call.signed /\ ~IsZero(call.divisor)
     /\ pc = "restore_sign"
     /\ TopBit(call.dividend) # TopBit(call.divisor))
        => result # SignedMin(Len(result))

\* avr_fast_div_impl::divide was called directly with a divisor of 0.
DivideWithZeroDivisor ==
    call.facade = "cpp" /\ call.entry = "divide" /\ IsZero(call.divisor)

\* C28: avr_fast_div_impl::divide has no zero-divisor check; run with divisor
\* 0 its loop sets the quotient bit in every one of its N steps and it
\* returns the all-ones quotient 2^N - 1 for every dividend, while fast_div,
\* fast_div16_8 and fast_div32_16 return 0 for a divisor of 0.
C28_UnguardedDivideByZero ==
    /\ []((DivideWithZeroDivisor /\ Done)
            => (result = AllOnes(Len(call.divisor)) /\ index = bit_width(Len(call.divisor))))
    /\ []((/\ call.facade = "cpp"
           /\ call.entry \in {"fast_div", "fast_div16_8", "fast_div32_16"}
           /\ IsZero(call.divisor) /\ Done)
            => (IsZero(result) /\ result # AllOnes(Len(result))))
    /\ [][(DivideWithZeroDivisor /\ pc = "divide" /\ index' = index + 1)
            => udividend'[1] % 2 = 1]_vars

\* C28 witness: divide((uint32_t)60000000, (uint16_t)0) returned 0xFFFF after
\* its 16 steps.
C28_Witness ==
    /\ DivideWithZeroDivisor /\ Done /\ index = 16
    /\ call.dividend = FromNat(60000000, 4)
    /\ result = <<255, 255>>

\* The iterations of  while (bit) { ...; bit = (T)(bit>>1U); }  still to run:
\* the right shifts that take bit to 0. For the bit of align, which starts at
\* 1 and is doubled with every left shift, it is one more than the left
\* shifts made.
RECURSIVE IterationsLeft(_)
IterationsLeft(b) == IF IsZero(b) THEN 0 ELSE 1 + IterationsLeft(Shr1(b))

\* divide_large_divisor of afd_implementation.hpp runs on a large divisor,
\* above 255 respectively 65535, that is at most the dividend.
LargeDivisorCase ==
    /\ call.facade = "cpp" /\ call.entry \in {"fast_div", "divide_large_divisor"}
    /\ Len(call.dividend) = Len(call.divisor)
    /\ Greater(ZeroExt(call.divisor, 4),
               IF Len(call.divisor) = 2 THEN FromNat(255, 4) ELSE FromNat(65535, 4))
    /\ LessEq(call.divisor, call.dividend)

\* N/2 for the N-bit operands of the call.
HalfWidth == bit_width(Len(call.divisor)) \div 2

\* C30: for a divisor above 2^(N/2) - 1 that is at most the dividend, align
\* makes at most N/2 - 1 left shifts and returns bit <= 2^(N/2 - 1), the loop
\* after the alignment has at most N/2 - 1 iterations to run at its first test
\* and one fewer after each iteration, and the result is below 2^(N/2).
C30_FewQuotientBits ==
    /\ []((LargeDivisorCase /\ pc \in {"align", "align_shift"})
            => /\ OnesFrom(bit, 1) = 1
               /\ IterationsLeft(bit) - 1 <= HalfWidth - 1
               /\ pc = "align_shift" => IterationsLeft(bit) - 1 < HalfWidth - 1)
    /\ [][(LargeDivisorCase /\ pc = "align" /\ pc' = "large_loop")
            => IterationsLeft(bit') = IterationsLeft(bit) - 1]_vars
    /\ []((LargeDivisorCase /\ pc = "large_loop")
            => (IterationsLeft(bit) <= HalfWidth - 1 /\ IsZero(HighHalf(res))))
    /\ [][(LargeDivisorCase /\ pc = "large_loop" /\ pc' = "large_loop")
            => IterationsLeft(bit') = IterationsLeft(bit) - 1]_vars
    /\ []((LargeDivisorCase /\ Done) => IsZero(HighHalf(result)))

\* C30 witness: divide_large_divisor((uint16_t)65535, (uint16_t)256) at the
\* first test of its loop: align made 7 shifts and returned bit = 128, and 7
\* iterations are left.
C30_Witness ==
    /\ LargeDivisorCase /\ call.entry = "divide_large_divisor"
    /\ call.dividend = AllOnes(2) /\ call.divisor = FromNat(256, 2)
    /\ pc = "large_loop" /\ subs = 1
    /\ res = <<128, 0>> /\ bit = <<64, 0>> /\ IterationsLeft(bit) = 7

====
